---------------------------- MODULE Spec2Model ----------------------------
(***************************************************************************)
(* A model of the two-phase judging scheduler of src/scheduler/scheduler.py *)
(* (generate_general_schedule, generate_category_schedules and              *)
(* generate_schedule).  Times are minutes since midnight of the judging day *)
(* (datetime + timedelta(minutes=k) is integer addition).  A team is        *)
(* [id, categories]; its display name is copied unchanged into every        *)
(* session and is left out.  A team's categories are a set of labels: the   *)
(* loader removes duplicates (data_loader.py:64) and the scheduler reads    *)
(* the list only through membership tests and per-label iteration.          *)
(*                                                                         *)
(* Spec is a call of generate_schedule with a well-formed start string and  *)
(* num_rooms >= 1; SpecCat is a direct call of generate_category_schedules  *)
(* with any ledger; SpecConfig adds the calls with a malformed start string *)
(* or a non-positive room count and the runs of load_teams_from_csv         *)
(* (src/scheduler/data_loader.py); SpecTwice is a call followed by a second *)
(* call with the same arguments; SpecBreak is a call whose buffer is        *)
(* shorter than the break between the two phases.                           *)
(*                                                                         *)
(* The older script src/main.py (generate_judging_schedule) is modelled in  *)
(* two parts.  SpecMain is a run of the script from the reading of the CSV  *)
(* file to the parsing of its two clock texts.  SpecSlots is the scheduling *)
(* code that follows (the general rooms, the MLH track and the sponsor      *)
(* tracks with their conflict loops), entered with a team list and a start  *)
(* time; its times are minutes after start_time.                            *)
(***************************************************************************)
EXTENDS Integers, Sequences, FiniteSets, TLC

\* ------------------------------------------------------------- constants

JUDGING_DURATION == 8

MLH_CATEGORIES == {"Best Use of MongoDB", "Best GenAI", "Best .tech"}

\* Room 6 is the room reserved for the MLH teams (a literal of the code).
MLH_ROOM == 6

\* At least this many MLH teams make the code reserve room 6 for them.
MLH_THRESHOLD == 6

\* The rooms 1..5 the code fills when room 6 is reserved: range(1, 6).
REMAINING_ROOMS == 1..5

\* The break between general and category judging: timedelta(minutes=30).
BREAK_MINUTES == 30

\* ---------------------------------------------------------------- bounds

\* The longest team list (7 teams: 6 MLH teams reserve room 6, and 6 other
\* teams next to one MLH team fill 6 rooms).
MaxTeams == 7

\* The longest team list drawn over all of Profiles.
MaxMixed == 3

MaxRooms == 7

\* The labels of the model, MLH sub-labels included, in the order of
\* Python's sorted().
LabelOrder ==
  <<"Best .tech", "Best Design", "Best GenAI", "Best Hardware",
    "Best Use of MongoDB">>

\* The category sets a team of a short list may carry: one MLH sub-label,
\* one ordinary label, two MLH sub-labels with two ordinary labels, none.
Profiles ==
  { {"Best Use of MongoDB"},
    {"Best Design"},
    {"Best GenAI", "Best .tech", "Best Design", "Best Hardware"},
    {} }

\* The category sets of the teams of a long list.
LongProfiles == { {"Best Use of MongoDB"}, {"Best Design"} }

Buffers == {0, 2, 32}

\* The buffers below the 30-minute break between the two phases.
BreakBuffers == {0, 2, 29}

StartTimes == {600}

\* The start_time_str arguments: one in the format 'YYYY-MM-DD HH:MM', and
\* three that are not (the date is missing; the hour is 25; the text "soon").
GoodStart ==
  <<"2", "0", "2", "5", "-", "0", "5", "-", "1", "7", " ", "1", "0", ":", "0", "0">>

StartStrings ==
  { GoodStart,
    <<"1", "0", ":", "0", "0">>,
    <<"2", "0", "2", "5", "-", "0", "5", "-", "1", "7", " ", "2", "5", ":", "0", "0">>,
    <<"s", "o", "o", "n">> }

\* The room counts of a misconfigured call, next to a good one.
ConfigRooms == {-2, -1, 0, 1}

\* The most rows of a CSV file.
MaxRows == 2

\* A cell of the "Track" or "Bounties" column: empty (NaN for pandas), or a
\* comma-separated text, given by its items after split(",") and strip().
NaN == [isna |-> TRUE, items |-> <<>>]

Cell(items) == [isna |-> FALSE, items |-> items]

\* The rows of a CSV file: a team whose two cells share a label, a team
\* with two empty cells, a row without a "BUIDL name", a team with a track.
RowShapes ==
  { [named |-> TRUE, track |-> Cell(<<"Best Design">>),
     bounties |-> Cell(<<"Best Use of MongoDB", "Best Design">>)],
    [named |-> TRUE, track |-> NaN, bounties |-> NaN],
    [named |-> FALSE, track |-> Cell(<<"Best Hardware">>), bounties |-> NaN],
    [named |-> TRUE, track |-> Cell(<<"Best Hardware">>), bounties |-> NaN] }

\* The bounds of a direct call of generate_category_schedules: the longest
\* team list, and the most bookings the ledger passed in holds for a team.
MaxCatTeams == 2

MaxBookings == 2

\* The start_time argument of a direct call, and the start times of the
\* bookings of the ledger passed in: before, just after and well after it.
CatStarts == {605}

BookingStarts == {600, 617, 650}

VARIABLES
  rows,               \* the rows of the CSV file read by load_teams_from_csv
  row_pos,            \* index of the next row of the loader's loop
  start_time_str,     \* the start_time_str argument, a sequence of characters
  first_run,          \* what an earlier call with the same arguments returned
  teams,              \* the input list: Seq of [id, categories]
  start_time,         \* the parsed start time
  buffer_minutes,
  num_rooms,
  pc,                 \* the position of the run
  room_assignments,   \* room -> Seq of teams
  rooms_todo,         \* rooms of room_assignments not yet laid out
  schedule,           \* general schedule: room -> Seq of sessions
  room_end_times,     \* room -> end time
  general_end_time,   \* latest_end_time returned by the general phase
  team_schedules,     \* the booking ledger: team id -> Seq of bookings
  category_schedules, \* category -> Seq of sessions
  cat_start,          \* start_time argument of generate_category_schedules
  current_start_time, \* the start cursor of the next category
  current_time,       \* the cursor inside the current category
  cat_pos,            \* index into all_categories of the current category
  team_pos,           \* index into category_teams of the next team
  last_commit,        \* the last category commit: proposal, result, ledger before
  mlh_current_time,   \* main.py: the cursor of the MLH track
  placement,          \* main.py: the conflict loop in progress: the cursor it
                      \* was entered with and the slots that pushed it
  stats               \* the statistics returned by generate_schedule

vars == <<rows, row_pos, start_time_str, first_run, teams, start_time,
          buffer_minutes, num_rooms, pc, room_assignments, rooms_todo,
          schedule, room_end_times, general_end_time,
          team_schedules, category_schedules, cat_start, current_start_time,
          current_time, cat_pos, team_pos, last_commit, mlh_current_time,
          placement, stats>>

\* ---------------------------------------------------------------- helpers

Max(S) == CHOOSE x \in S : \A y \in S : y <= x

RECURSIVE SumSeq(_)
SumSeq(s) == IF s = <<>> THEN 0 ELSE Head(s) + SumSeq(Tail(s))

\* lst[i:j] of Python (0-based, j exclusive), for 0 <= i.
Slice(lst, i, j) ==
  LET hi == IF j > Len(lst) THEN Len(lst) ELSE j
  IN  IF i >= hi THEN <<>> ELSE SubSeq(lst, i + 1, hi)

\* any(cat in MLH_CATEGORIES for cat in team["categories"])
IsMlhTeam(team) == team.categories \cap MLH_CATEGORIES # {}

\* The team lists of at most n teams over the category sets P; ids are
\* unique (the position in the list).
ListsOver(P, n) ==
  UNION { { [i \in 1..k |-> [id |-> i, categories |-> f[i]]] :
              f \in [1..k -> P] } : k \in 0..n }

\* The input team lists: short ones over every profile, long ones over two.
TeamLists == ListsOver(Profiles, MaxMixed) \cup ListsOver(LongProfiles, MaxTeams)

\* a // b and a % b of Python for a >= 0 and b # 0: the quotient is rounded
\* down, the remainder has the sign of b.
PyFloorDiv(a, b) ==
  IF b > 0 THEN a \div b ELSE 0 - ((a + (0 - b) - 1) \div (0 - b))

PyMod(a, b) == a - b * PyFloorDiv(a, b)

\* ------------------------------------------------------- the start time

Digits == <<"0", "1", "2", "3", "4", "5", "6", "7", "8", "9">>

IsDigit(c) == \E i \in 1..Len(Digits) : Digits[i] = c

DigitValue(c) == (CHOOSE i \in 1..Len(Digits) : Digits[i] = c) - 1

\* The number written by the two characters of str at i and i + 1.
TwoDigits(str, i) == DigitValue(str[i]) * Len(Digits) + DigitValue(str[i + 1])

\* Mutant of Parses: only the length of the text is checked.
ParsesByLength(str) == Len(str) = Len(GoodStart)

\* Whether strptime(str, "%Y-%m-%d %H:%M") returns rather than raising
\* ValueError, for strings whose fields are written with all their digits:
\* four digits, "-", a month, "-", a day, " ", an hour, ":", a minute.
Parses(str) ==
  /\ Len(str) = Len(GoodStart)
  /\ \A i \in 1..Len(GoodStart) :
        IF IsDigit(GoodStart[i]) THEN IsDigit(str[i]) ELSE str[i] = GoodStart[i]
  /\ TwoDigits(str, 6) \in 1..12
  /\ TwoDigits(str, 9) \in 1..31
  /\ TwoDigits(str, 12) \in 0..23
  /\ TwoDigits(str, 15) \in 0..59

\* The parsed start time, in minutes since midnight of the judging day.
ParseStart(str) == TwoDigits(str, 12) * 60 + TwoDigits(str, 15)

\* ------------------------------------------- generate_general_schedule

MlhTeams(ts) == SelectSeq(ts, IsMlhTeam)

NonMlhTeams(ts) == SelectSeq(ts, LAMBDA t : ~IsMlhTeam(t))

\* len(mlh_teams) >= 6: room 6 is reserved for the MLH teams.
RoomReserved(ts) == Len(MlhTeams(ts)) >= MLH_THRESHOLD

\* dict[k] = v on a dict given as (key order, values): a new key goes last.
DictKeys(order, k) ==
  IF \E i \in 1..Len(order) : order[i] = k THEN order ELSE Append(order, k)

DictPut(d, k, v) == [x \in DOMAIN d \cup {k} |-> IF x = k THEN v ELSE d[x]]

\* {i + 1: [] for i in range(num_rooms)}
EmptyRooms(n) == [r \in 1..n |-> <<>>]

\* The loop of the reserved branch over remaining_rooms = [1..5], from its
\* i-th iteration (0-based) with team_index teams already handed out.
RECURSIVE AllocReserved(_, _, _, _)
AllocReserved(i, team_index, non_mlh, ra) ==
  IF i >= Cardinality(REMAINING_ROOMS) THEN ra
  ELSE LET teams_per_room == Len(non_mlh) \div Cardinality(REMAINING_ROOMS)
           remaining == Len(non_mlh) % Cardinality(REMAINING_ROOMS)
           count == teams_per_room + (IF i < remaining THEN 1 ELSE 0)
       IN  AllocReserved(i + 1, team_index + count, non_mlh,
             DictPut(ra, i + 1, Slice(non_mlh, team_index, team_index + count)))

\* "count = base_per_room + (1 if remainder > 0 else 0)"
ShareCount(base_per_room, remainder) ==
  base_per_room + (IF remainder > 0 THEN 1 ELSE 0)

\* Mutant of SkipRoom: room 6 takes its share next to the MLH teams.
SkipRoomNever(room_num, ra) == FALSE

\* "if room_num == 6 and room_assignments[6]: continue"
SkipRoom(room_num, ra) == room_num = MLH_ROOM /\ ra[MLH_ROOM] # <<>>

\* The loop of the other branch over all_rooms = [1..num_rooms], from room
\* room_num on, with the running remainder and non_mlh_index.
RECURSIVE AllocShared(_, _, _, _, _, _)
AllocShared(room_num, n, remainder, non_mlh_index, non_mlh, ra) ==
  IF room_num > n THEN ra
  ELSE IF SkipRoom(room_num, ra)
       THEN AllocShared(room_num + 1, n, remainder, non_mlh_index, non_mlh, ra)
  ELSE LET base_per_room == PyFloorDiv(Len(non_mlh), n)
           count == ShareCount(base_per_room, remainder)
           left  == remainder - (IF remainder > 0 THEN 1 ELSE 0)
       IN  AllocShared(room_num + 1, n, left, non_mlh_index + count, non_mlh,
             DictPut(ra, room_num,
               ra[room_num] \o
                 Slice(non_mlh, non_mlh_index, non_mlh_index + count)))

\* room_assignments as the code leaves it before laying the rooms out.
RoomAssignments(ts, n) ==
  LET mlh == MlhTeams(ts)
      non_mlh == NonMlhTeams(ts)
      with6 == DictPut(EmptyRooms(n), MLH_ROOM, mlh)
  IN  IF RoomReserved(ts)
      THEN AllocReserved(0, 0, non_mlh, with6)
      ELSE AllocShared(1, n, PyMod(Len(non_mlh), n), 0, non_mlh, with6)

\* The key order of room_assignments (dicts iterate in insertion order).
RECURSIVE PutKeys(_, _)
PutKeys(order, ks) ==
  IF ks = <<>> THEN order ELSE PutKeys(DictKeys(order, Head(ks)), Tail(ks))

RoomOrder(ts, n) ==
  LET with6 == DictKeys([i \in 1..n |-> i], MLH_ROOM)
  IN  IF RoomReserved(ts)
      THEN PutKeys(with6, [i \in 1..Cardinality(REMAINING_ROOMS) |-> i])
      ELSE with6

\* end_time = current_time + timedelta(minutes=JUDGING_DURATION)
SessionEnd(start) == start + JUDGING_DURATION

\* Mutant of NextSlot: the buffer is forgotten.
NextSlotNoBuffer(end, buffer) == end

\* current_time = end_time + timedelta(minutes=buffer_minutes)
NextSlot(end, buffer) == end + buffer

GeneralEntry(team, start) ==
  [team_id |-> team.id, type |-> "General", categories |-> team.categories,
   start_time |-> start, end_time |-> SessionEnd(start)]

Booking(start, type) ==
  [start_time |-> start, end_time |-> SessionEnd(start), type |-> type]

\* The sessions of one room, the first of room_teams starting at current.
RECURSIVE RoomTrack(_, _, _)
RoomTrack(room_teams, current, buffer) ==
  IF room_teams = <<>> THEN <<>>
  ELSE <<GeneralEntry(Head(room_teams), current)>> \o
       RoomTrack(Tail(room_teams), NextSlot(SessionEnd(current), buffer), buffer)

\* Mutant of LedgerAppend: the team's list is replaced by the new entry.
LedgerReplace(ledger, id, entry) ==
  [x \in DOMAIN ledger \cup {id} |-> IF x = id THEN <<entry>> ELSE ledger[x]]

\* team_schedules[id].append(entry), creating the list when id is new.
LedgerAppend(ledger, id, entry) ==
  [x \in DOMAIN ledger \cup {id} |->
     IF x = id
     THEN (IF id \in DOMAIN ledger THEN ledger[id] ELSE <<>>) \o <<entry>>
     ELSE ledger[x]]

\* Mutant of LedgerAppendAll: only the room's first session is entered.
LedgerAppendFirst(ledger, track) ==
  IF track = <<>> THEN ledger
  ELSE LedgerAppend(ledger, Head(track).team_id,
                    Booking(Head(track).start_time, Head(track).type))

RECURSIVE LedgerAppendAll(_, _)
LedgerAppendAll(ledger, track) ==
  IF track = <<>> THEN ledger
  ELSE LedgerAppendAll(
         LedgerAppend(ledger, Head(track).team_id,
                      Booking(Head(track).start_time, Head(track).type)),
         Tail(track))

\* Mutant of RoomEnd: the end of the room's first session is taken.
RoomEndFirst(track, start) ==
  IF track # <<>> THEN track[1].end_time ELSE start

\* "room_end_times[room_num] = ..." of one room.
RoomEnd(track, start) ==
  IF track # <<>> THEN track[Len(track)].end_time ELSE start

\* max(room_end_times.values()) if room_end_times else start_time
LatestEnd(ends, start) ==
  IF DOMAIN ends # {} THEN Max({ends[r] : r \in DOMAIN ends}) ELSE start


\* ----------------------------------------- generate_category_schedules

\* Mutant of AllCategories: the MLH sub-labels are not left out.
AllCategoriesNoFilter(ts) ==
  SelectSeq(LabelOrder,
            LAMBDA c : \E i \in 1..Len(ts) : c \in ts[i].categories)

\* get_categories_from_teams: the sorted list of the non-MLH labels in use.
AllCategories(ts) ==
  SelectSeq(LabelOrder,
            LAMBDA c : c \notin MLH_CATEGORIES
                       /\ \E i \in 1..Len(ts) : c \in ts[i].categories)

\* The keys of category_schedules and category_teams.
CategoryKeys(ts) ==
  {"MLH"} \cup {AllCategories(ts)[i] : i \in 1..Len(AllCategories(ts))}

\* list(category_schedules.keys()): "MLH" was inserted first, then the
\* labels of all_categories in their order.
CategoryOrder(ts) == <<"MLH">> \o AllCategories(ts)

\* Mutant of CategoryTeams: a team enters the MLH list once per MLH
\* sub-label it carries.
RECURSIVE TeamsPerLabel(_)
TeamsPerLabel(ts) ==
  IF ts = <<>> THEN <<>>
  ELSE [i \in 1..Cardinality(Head(ts).categories \cap MLH_CATEGORIES) |->
          Head(ts)] \o TeamsPerLabel(Tail(ts))

CategoryTeamsPerLabel(ts, cat) ==
  IF cat = "MLH" THEN TeamsPerLabel(ts)
  ELSE SelectSeq(ts, LAMBDA t : cat \in t.categories)

\* Mutant of CategoryTeams: a team of the MLH track is left out of the
\* ordinary tracks.
CategoryTeamsMlhOnly(ts, cat) ==
  IF cat = "MLH" THEN SelectSeq(ts, IsMlhTeam)
  ELSE SelectSeq(ts, LAMBDA t : cat \in t.categories /\ ~IsMlhTeam(t))

\* category_teams[cat]: the eligible teams, in input order.
CategoryTeams(ts, cat) ==
  IF cat = "MLH" THEN SelectSeq(ts, IsMlhTeam)
  ELSE SelectSeq(ts, LAMBDA t : cat \in t.categories)

\* Mutant of Conflict: the intervals are tested without the buffer.
ConflictNoBuffer(current, existing, buffer) ==
  /\ current <= existing.end_time
  /\ SessionEnd(current) >= existing.start_time

\* Mutant of Conflict: sessions exactly the buffer apart do not conflict.
ConflictStrict(current, existing, buffer) ==
  /\ current < existing.end_time + buffer
  /\ SessionEnd(current) + buffer > existing.start_time

\* The conflict test of a proposed start against one existing booking.
Conflict(current, existing, buffer) ==
  /\ current <= existing.end_time + buffer
  /\ SessionEnd(current) + buffer >= existing.start_time

\* Mutant of ConflictEnd: the push stops at the booking's end.
ConflictEndNoBuffer(existing, buffer) == existing.end_time

\* Mutant of ConflictEnd: the push goes one minute further.
ConflictEndLater(existing, buffer) == existing.end_time + buffer + 1

\* conflict_end = existing["end_time"] + timedelta(minutes=buffer_minutes)
ConflictEnd(existing, buffer) == existing.end_time + buffer

\* The scan over a team's bookings: one pass, every test against the
\* proposed start, keeping the latest conflict_end in earliest_available.
RECURSIVE ScanBookings(_, _, _, _)
ScanBookings(current, bookings, buffer, earliest_available) ==
  IF bookings = <<>> THEN earliest_available
  ELSE LET existing == Head(bookings)
           pushed ==
             IF Conflict(current, existing, buffer)
                /\ ConflictEnd(existing, buffer) > earliest_available
             THEN ConflictEnd(existing, buffer)
             ELSE earliest_available
       IN  ScanBookings(current, Tail(bookings), buffer, pushed)

\* The start a team is committed at when proposed at current.
CommitStart(current, id, ledger, buffer) ==
  IF id \in DOMAIN ledger
  THEN ScanBookings(current, ledger[id], buffer, current)
  ELSE current

\* Mutant of TrackCategories: an MLH session lists all of the team's labels.
TrackCategoriesAll(team, cat) ==
  IF cat = "MLH" THEN team.categories ELSE {cat}

\* The "categories" field of a session of the MLH track / of another track.
TrackCategories(team, cat) ==
  IF cat = "MLH" THEN team.categories \cap MLH_CATEGORIES ELSE {cat}

CategoryEntry(team, cat, start) ==
  [team_id |-> team.id, type |-> cat, categories |-> TrackCategories(team, cat),
   start_time |-> start, end_time |-> SessionEnd(start)]

\* Mutant of NextCategoryStart: every category starts at the same time.
NextCategoryStartParallel(track, buffer, current_start) == current_start

\* "current_start_time = track[-1]['end_time'] + buffer" when track is not
\* empty.
NextCategoryStart(track, buffer, current_start) ==
  IF track # <<>> THEN NextSlot(track[Len(track)].end_time, buffer)
  ELSE current_start

\* The category the loop is at: "MLH" first, then all_categories in order.
CurrentCategory ==
  IF pc = "mlh" THEN "MLH" ELSE AllCategories(teams)[cat_pos]

NoCommit == [team_id |-> 0, track |-> "", proposed |-> 0, start |-> 0,
             before |-> <<>>]

NoStats == [returned |-> FALSE]

NoPlacement == [proposed |-> 0, pushes |-> <<>>]

NoRun == [returned |-> FALSE]

\* Mutant of FreshLedger: the ledger of an earlier call is kept.
StaleLedger == team_schedules

\* "team_schedules = {}": every call starts with an empty ledger.
FreshLedger == <<>>

\* --------------------------------------------------- load_teams_from_csv

\* The CSV files of at most n rows; "BUIDL ID" is the row's number.
RowLists(n) ==
  UNION { { [i \in 1..k |-> [id |-> i, named |-> f[i].named,
                              track |-> f[i].track,
                              bounties |-> f[i].bounties]] :
              f \in [1..k -> RowShapes] } : k \in 0..n }

\* The items a cell adds to the row's categories.
CellItems(cell) ==
  IF cell.isna THEN {} ELSE {cell.items[i] : i \in 1..Len(cell.items)}

\* "categories = list(set(categories))" over both cells.
RowCategories(row) == CellItems(row.track) \cup CellItems(row.bounties)

RowTeam(row) == [id |-> row.id, categories |-> RowCategories(row)]

\* Mutant of RowIsTeam: a row without a team name is loaded as well.
RowAlwaysTeam(row) == TRUE

\* "if pd.isna(team_name): continue"
RowIsTeam(row) == row.named

\* ------------------------------------------------------------------ Init

InitLocals ==
  /\ room_assignments = <<>>
  /\ rooms_todo = <<>>
  /\ schedule = <<>>
  /\ room_end_times = <<>>
  /\ general_end_time = 0
  /\ category_schedules = <<>>
  /\ current_start_time = 0
  /\ current_time = 0
  /\ cat_pos = 0
  /\ team_pos = 0
  /\ last_commit = NoCommit
  /\ mlh_current_time = 0
  /\ placement = NoPlacement
  /\ stats = NoStats

\* No CSV file is read and no earlier call is recorded.
InitCall ==
  /\ rows = <<>>
  /\ row_pos = 0
  /\ first_run = NoRun
  /\ start_time = 0
  /\ pc = "parse"
  /\ team_schedules = <<>>
  /\ cat_start = 0
  /\ InitLocals

\* A call generate_schedule(teams, start_time_str, buffer_minutes, num_rooms).
Init ==
  /\ teams \in TeamLists
  /\ start_time_str = GoodStart
  /\ buffer_minutes \in Buffers
  /\ num_rooms \in 1..MaxRooms
  /\ InitCall

\* --------------------------------------------------------------- actions

\* One iteration of "for _, row in df.iterrows()": a row without a team
\* name is skipped, another one becomes a team.
LoadRow ==
  /\ pc = "load"
  /\ row_pos <= Len(rows)
  /\ teams' = IF RowIsTeam(rows[row_pos])
              THEN Append(teams, RowTeam(rows[row_pos]))
              ELSE teams
  /\ row_pos' = row_pos + 1
  /\ UNCHANGED <<mlh_current_time, placement,
                 rows, start_time_str, first_run, start_time, buffer_minutes,
                 num_rooms, pc, room_assignments, rooms_todo, schedule,
                 room_end_times, general_end_time, team_schedules,
                 category_schedules, cat_start, current_start_time,
                 current_time, cat_pos, team_pos, last_commit, stats>>

\* "return teams"
ReturnTeams ==
  /\ pc = "load"
  /\ row_pos > Len(rows)
  /\ teams # <<>>
  /\ pc' = "loaded"
  /\ UNCHANGED <<mlh_current_time, placement,
                 rows, row_pos, start_time_str, first_run, teams, start_time,
                 buffer_minutes, num_rooms, room_assignments, rooms_todo,
                 schedule, room_end_times, general_end_time, team_schedules,
                 category_schedules, cat_start, current_start_time,
                 current_time, cat_pos, team_pos, last_commit, stats>>

\* "if not teams: ... sys.exit(1)"
ExitNoTeams ==
  /\ pc = "load"
  /\ row_pos > Len(rows)
  /\ teams = <<>>
  /\ pc' = "exit"
  /\ UNCHANGED <<mlh_current_time, placement,
                 rows, row_pos, start_time_str, first_run, teams, start_time,
                 buffer_minutes, num_rooms, room_assignments, rooms_todo,
                 schedule, room_end_times, general_end_time, team_schedules,
                 category_schedules, cat_start, current_start_time,
                 current_time, cat_pos, team_pos, last_commit, stats>>

\* The first step of generate_schedule: the start time is parsed.
ParseStartTime ==
  /\ pc = "parse"
  /\ Parses(start_time_str)
  /\ start_time' = ParseStart(start_time_str)
  /\ pc' = "general"
  /\ UNCHANGED <<mlh_current_time, placement,
                 rows, row_pos, start_time_str, first_run, teams,
                 buffer_minutes, num_rooms, room_assignments, rooms_todo,
                 schedule, room_end_times, general_end_time, team_schedules,
                 category_schedules, cat_start, current_start_time,
                 current_time, cat_pos, team_pos, last_commit, stats>>

\* strptime raises ValueError, which nothing catches: the call ends.
RaiseValueError ==
  /\ pc = "parse"
  /\ ~Parses(start_time_str)
  /\ pc' = "raised"
  /\ UNCHANGED <<mlh_current_time, placement,
                 rows, row_pos, start_time_str, first_run, teams, start_time,
                 buffer_minutes, num_rooms, room_assignments, rooms_todo,
                 schedule, room_end_times, general_end_time, team_schedules,
                 category_schedules, cat_start, current_start_time,
                 current_time, cat_pos, team_pos, last_commit, stats>>

\* "total_to_distribute // num_rooms" divides by zero in the branch taken
\* with fewer than 6 MLH teams.
DividesByZero == num_rooms = 0 /\ ~RoomReserved(teams)

\* generate_general_schedule up to the room assignment, and the three
\* empty dicts it lays the rooms out into.
AssignRooms ==
  /\ pc = "general"
  /\ ~DividesByZero
  /\ room_assignments' = RoomAssignments(teams, num_rooms)
  /\ rooms_todo' = RoomOrder(teams, num_rooms)
  /\ schedule' = <<>>
  /\ room_end_times' = <<>>
  /\ team_schedules' = FreshLedger
  /\ pc' = "rooms"
  /\ UNCHANGED <<mlh_current_time, placement,
                 rows, row_pos, start_time_str, first_run, teams,
                 start_time, buffer_minutes, num_rooms, general_end_time,
                 category_schedules, cat_start, current_start_time,
                 current_time, cat_pos, team_pos, last_commit, stats>>

\* ZeroDivisionError, which nothing catches: the call ends.
RaiseZeroDivision ==
  /\ pc = "general"
  /\ DividesByZero
  /\ pc' = "raised"
  /\ UNCHANGED <<mlh_current_time, placement,
                 rows, row_pos, start_time_str, first_run, teams, start_time,
                 buffer_minutes, num_rooms, room_assignments, rooms_todo,
                 schedule, room_end_times, general_end_time, team_schedules,
                 category_schedules, cat_start, current_start_time,
                 current_time, cat_pos, team_pos, last_commit, stats>>

\* One iteration of "for room_num, room_teams in room_assignments.items()".
ScheduleRoom ==
  /\ pc = "rooms"
  /\ rooms_todo # <<>>
  /\ LET room_num == Head(rooms_todo)
         track == RoomTrack(room_assignments[room_num], start_time,
                            buffer_minutes)
     IN  /\ schedule' = DictPut(schedule, room_num, track)
         /\ team_schedules' = LedgerAppendAll(team_schedules, track)
         /\ room_end_times' =
              DictPut(room_end_times, room_num, RoomEnd(track, start_time))
  /\ rooms_todo' = Tail(rooms_todo)
  /\ UNCHANGED <<mlh_current_time, placement,
                 rows, row_pos, start_time_str, first_run, teams,
                 start_time, buffer_minutes, num_rooms, pc,
                 room_assignments, general_end_time, category_schedules,
                 cat_start, current_start_time, current_time, cat_pos,
                 team_pos, last_commit, stats>>

\* Mutant of CategoriesStart: the break is forgotten.
CategoriesStartNoBreak(general_end) == general_end

\* The start of category judging: the general end plus the break.
CategoriesStart(general_end) == general_end + BREAK_MINUTES

\* generate_general_schedule returns; generate_schedule calls
\* generate_category_schedules.
FinishGeneral ==
  /\ pc = "rooms"
  /\ rooms_todo = <<>>
  /\ general_end_time' = LatestEnd(room_end_times, start_time)
  /\ cat_start' = CategoriesStart(general_end_time')
  /\ pc' = "categories"
  /\ UNCHANGED <<mlh_current_time, placement,
                 rows, row_pos, start_time_str, first_run, teams,
                 start_time, buffer_minutes, num_rooms,
                 room_assignments, rooms_todo, schedule, room_end_times,
                 team_schedules, category_schedules, current_start_time,
                 current_time, cat_pos, team_pos, last_commit, stats>>

\* generate_category_schedules up to the MLH loop (whose cursor is set only
\* when there is an MLH team).
InitCategories ==
  /\ pc = "categories"
  /\ category_schedules' = [c \in CategoryKeys(teams) |-> <<>>]
  /\ current_start_time' = cat_start
  /\ current_time' =
       IF CategoryTeams(teams, "MLH") # <<>> THEN cat_start ELSE current_time
  /\ team_pos' = 1
  /\ pc' = "mlh"
  /\ UNCHANGED <<mlh_current_time, placement,
                 rows, row_pos, start_time_str, first_run, teams,
                 start_time, buffer_minutes, num_rooms,
                 room_assignments, rooms_todo, schedule, room_end_times,
                 general_end_time, team_schedules, cat_start, cat_pos,
                 last_commit, stats>>

\* One iteration of a "for team in category_teams[...]" loop: the conflict
\* scan, the commit to the track and to the ledger, the cursor's advance.
CommitTeam(cat) ==
  LET team == CategoryTeams(teams, cat)[team_pos]
      start == CommitStart(current_time, team.id, team_schedules,
                           buffer_minutes)
  IN  /\ category_schedules' =
           [category_schedules EXCEPT
              ![cat] = Append(@, CategoryEntry(team, cat, start))]
      /\ team_schedules' =
           LedgerAppend(team_schedules, team.id, Booking(start, cat))
      /\ current_time' = NextSlot(SessionEnd(start), buffer_minutes)
      /\ last_commit' =
           [team_id |-> team.id, track |-> cat, proposed |-> current_time,
            start |-> start,
            before |-> IF team.id \in DOMAIN team_schedules
                       THEN team_schedules[team.id] ELSE <<>>]
      /\ team_pos' = team_pos + 1
      /\ UNCHANGED <<mlh_current_time, placement,
                     rows, row_pos, start_time_str, first_run, teams,
                     start_time, buffer_minutes, num_rooms, pc,
                     room_assignments, rooms_todo, schedule, room_end_times,
                     general_end_time, cat_start, current_start_time, cat_pos,
                     stats>>

ScheduleMLHTeam ==
  /\ pc = "mlh"
  /\ team_pos <= Len(CategoryTeams(teams, "MLH"))
  /\ CommitTeam("MLH")

\* The end of the MLH loop: the next category starts after the MLH track.
FinishMLH ==
  /\ pc = "mlh"
  /\ team_pos > Len(CategoryTeams(teams, "MLH"))
  /\ current_start_time' =
       NextCategoryStart(category_schedules["MLH"], buffer_minutes,
                         current_start_time)
  /\ pc' = "cat"
  /\ cat_pos' = 1
  /\ team_pos' = 0
  /\ UNCHANGED <<mlh_current_time, placement,
                 rows, row_pos, start_time_str, first_run, teams,
                 start_time, buffer_minutes, num_rooms,
                 room_assignments, rooms_todo, schedule, room_end_times,
                 general_end_time, team_schedules, category_schedules,
                 cat_start, current_time, last_commit, stats>>

\* The head of "for category in all_categories": a category without teams is
\* skipped, another one starts its cursor at current_start_time.
StartCategory ==
  /\ pc = "cat"
  /\ cat_pos <= Len(AllCategories(teams))
  /\ team_pos = 0
  /\ IF CategoryTeams(teams, CurrentCategory) = <<>>
     THEN /\ cat_pos' = cat_pos + 1
          /\ UNCHANGED <<current_time, team_pos>>
     ELSE /\ current_time' = current_start_time
          /\ team_pos' = 1
          /\ UNCHANGED cat_pos
  /\ UNCHANGED <<mlh_current_time, placement,
                 rows, row_pos, start_time_str, first_run, teams,
                 start_time, buffer_minutes, num_rooms, pc,
                 room_assignments, rooms_todo, schedule, room_end_times,
                 general_end_time, team_schedules, category_schedules,
                 cat_start, current_start_time, last_commit, stats>>

ScheduleCategoryTeam ==
  /\ pc = "cat"
  /\ cat_pos <= Len(AllCategories(teams))
  /\ team_pos >= 1
  /\ team_pos <= Len(CategoryTeams(teams, CurrentCategory))
  /\ CommitTeam(CurrentCategory)

\* The end of one category's loop.
FinishCategory ==
  /\ pc = "cat"
  /\ cat_pos <= Len(AllCategories(teams))
  /\ team_pos > Len(CategoryTeams(teams, CurrentCategory))
  /\ current_start_time' =
       NextCategoryStart(category_schedules[CurrentCategory], buffer_minutes,
                         current_start_time)
  /\ cat_pos' = cat_pos + 1
  /\ team_pos' = 0
  /\ UNCHANGED <<mlh_current_time, placement,
                 rows, row_pos, start_time_str, first_run, teams,
                 start_time, buffer_minutes, num_rooms, pc,
                 room_assignments, rooms_todo, schedule, room_end_times,
                 general_end_time, team_schedules, category_schedules,
                 cat_start, current_time, last_commit, stats>>

\* "return category_schedules"
ReturnCategories ==
  /\ pc = "cat"
  /\ cat_pos > Len(AllCategories(teams))
  /\ pc' = "returned"
  /\ UNCHANGED <<mlh_current_time, placement,
                 rows, row_pos, start_time_str, first_run, teams,
                 start_time, buffer_minutes, num_rooms,
                 room_assignments, rooms_todo, schedule, room_end_times,
                 general_end_time, team_schedules, category_schedules,
                 cat_start, current_start_time, current_time, cat_pos,
                 team_pos, last_commit, stats>>

\* The latest end time of generate_schedule: the general end, or the end of
\* the last session of a category track when that is later.
OverallEnd(general_end, tracks) ==
  Max({general_end} \cup
      {tracks[c][Len(tracks[c])].end_time :
         c \in {k \in DOMAIN tracks : tracks[k] # <<>>}})

\* generate_schedule assembles the statistics and returns.
ComputeStats ==
  /\ pc = "returned"
  /\ stats' = [returned |-> TRUE,
               start_time |-> start_time,
               general_end_time |-> general_end_time,
               end_time |-> OverallEnd(general_end_time, category_schedules),
               total_teams |-> Len(teams),
               general_rooms |-> [r \in DOMAIN schedule |-> Len(schedule[r])],
               categories |-> CategoryOrder(teams)]
  /\ pc' = "done"
  /\ UNCHANGED <<mlh_current_time, placement,
                 rows, row_pos, start_time_str, first_run, teams,
                 start_time, buffer_minutes, num_rooms,
                 room_assignments, rooms_todo, schedule, room_end_times,
                 general_end_time, team_schedules, category_schedules,
                 cat_start, current_start_time, current_time, cat_pos,
                 team_pos, last_commit>>

CategoryNext ==
  \/ InitCategories
  \/ ScheduleMLHTeam
  \/ FinishMLH
  \/ StartCategory
  \/ ScheduleCategoryTeam
  \/ FinishCategory
  \/ ReturnCategories

Next ==
  \/ ParseStartTime
  \/ AssignRooms
  \/ ScheduleRoom
  \/ FinishGeneral
  \/ CategoryNext
  \/ ComputeStats

Spec == Init /\ [][Next]_vars


\* ------------------------------------ two calls with the same arguments

\* generate_schedule has returned and is called again with the same
\* arguments.  What the first call returned is kept for comparison.  The
\* locals of the new call are unset; the three dicts of the first call's
\* general phase are left as they are until the new call makes its own.
Rerun ==
  /\ pc = "done"
  /\ ~first_run.returned
  /\ first_run' = [returned |-> TRUE, teams |-> teams, general |-> schedule,
                   categories |-> category_schedules, stats |-> stats]
  /\ pc' = "parse"
  /\ start_time' = 0
  /\ room_assignments' = <<>>
  /\ rooms_todo' = <<>>
  /\ general_end_time' = 0
  /\ category_schedules' = <<>>
  /\ cat_start' = 0
  /\ current_start_time' = 0
  /\ current_time' = 0
  /\ cat_pos' = 0
  /\ team_pos' = 0
  /\ last_commit' = NoCommit
  /\ stats' = NoStats
  /\ UNCHANGED <<mlh_current_time, placement,
                 rows, row_pos, start_time_str, teams, buffer_minutes,
                 num_rooms, schedule, room_end_times, team_schedules>>

\* A first call of generate_schedule on a short team list.
InitTwice ==
  /\ teams \in ListsOver(Profiles, MaxMixed)
  /\ start_time_str = GoodStart
  /\ buffer_minutes \in Buffers
  /\ num_rooms \in 1..MaxRooms
  /\ InitCall

TwiceNext ==
  \/ Next
  \/ Rerun

SpecTwice == InitTwice /\ [][TwiceNext]_vars


\* ------------------------------- configuration errors and the loader

\* A call load_teams_from_csv(file_path) on a file with the four columns.
InitLoad ==
  /\ rows \in RowLists(MaxRows)
  /\ row_pos = 1
  /\ teams = <<>>
  /\ pc = "load"
  /\ start_time_str = GoodStart
  /\ buffer_minutes = 0
  /\ num_rooms = 1
  /\ first_run = NoRun
  /\ start_time = 0
  /\ team_schedules = <<>>
  /\ cat_start = 0
  /\ InitLocals

\* A call of generate_schedule with any start string and a room count that
\* may be zero or negative.
InitConfig ==
  /\ teams \in TeamLists
  /\ start_time_str \in StartStrings
  /\ buffer_minutes \in Buffers
  /\ num_rooms \in ConfigRooms
  /\ InitCall

InitRun == InitLoad \/ InitConfig

ConfigNext ==
  \/ LoadRow
  \/ ReturnTeams
  \/ ExitNoTeams
  \/ RaiseValueError
  \/ RaiseZeroDivision
  \/ Next

SpecConfig == InitRun /\ [][ConfigNext]_vars


\* ------------------------- calls with a buffer below the break

\* A call of generate_schedule whose buffer is shorter than the break.
InitBreak ==
  /\ teams \in TeamLists
  /\ start_time_str = GoodStart
  /\ buffer_minutes \in BreakBuffers
  /\ num_rooms \in 1..MaxRooms
  /\ InitCall

SpecBreak == InitBreak /\ [][Next]_vars

\* ------------------- a direct call of generate_category_schedules

\* The lists of at most n bookings a caller's ledger may hold for a team.
BookingLists(n) ==
  UNION { [1..k -> {Booking(b, "General") : b \in BookingStarts}] : k \in 1..n }

\* The ledgers passed in: empty, or the bookings of one team id.
Ledgers ==
  {<<>>} \cup
  UNION { { [x \in {id} |-> bl] : bl \in BookingLists(MaxBookings) } :
            id \in 1..MaxCatTeams }

\* A call generate_category_schedules(teams, start_time, team_schedules,
\* buffer_minutes) with any ledger.
InitCat ==
  /\ rows = <<>>
  /\ row_pos = 0
  /\ start_time_str = GoodStart
  /\ first_run = NoRun
  /\ teams \in ListsOver(Profiles, MaxCatTeams)
  /\ start_time \in StartTimes
  /\ buffer_minutes \in Buffers
  /\ num_rooms = 1
  /\ pc = "categories"
  /\ team_schedules \in Ledgers
  /\ cat_start \in CatStarts
  /\ InitLocals

SpecCat == InitCat /\ [][CategoryNext]_vars


\* ------------------------------ main.py: generate_judging_schedule

\* The two clock texts handed to strptime with the format "%H:%M": the
\* judging start and the target end.
START_TIME_TEXT == <<"x", "1", "1", ":", "0", "5">>

TARGET_END_TEXT == <<"1", "2", ":", "1", "5">>

\* The value of the digits str[i..j].
RECURSIVE Number(_, _, _)
Number(str, i, j) ==
  IF i > j THEN 0 ELSE 10 * Number(str, i, j - 1) + DigitValue(str[j])

\* strptime(str, "%H:%M") succeeds: an hour of one or two digits below 24,
\* a colon, a minute of one or two digits below 60, and nothing else.
ClockParses(str) ==
  \E h \in 1..2, m \in 1..2 :
    /\ Len(str) = h + 1 + m
    /\ \A i \in 1..h : IsDigit(str[i])
    /\ str[h + 1] = ":"
    /\ \A i \in (h + 2)..(h + 1 + m) : IsDigit(str[i])
    /\ Number(str, 1, h) < 24
    /\ Number(str, h + 2, h + 1 + m) < 60

\* The rows of the input CSV of main.py: "Track" holds one label or is
\* empty, "Bounties" holds a comma-separated text or is empty.
MainRowShapes ==
  { [track |-> NaN, bounties |-> NaN],
    [track |-> Cell(<<"Best Beginner Hack">>), bounties |-> NaN],
    [track |-> NaN, bounties |-> Cell(<<"Best Developer Tool by Warp">>)],
    [track |-> Cell(<<"Best Beginner Hack">>),
     bounties |-> Cell(<<"MLH || Best Use of Gen AI",
                         "Best Developer Tool by Warp">>)],
    [track |-> NaN,
     bounties |-> Cell(<<"MLH || Best Use of Gen AI",
                         "Hackathon Tool Prize Track by Hack Canada">>)] }

\* The CSV files of at most n rows; "BUIDL ID" is the row's number.
MainRowLists(n) ==
  UNION { { [i \in 1..k |-> [id |-> i, track |-> f[i].track,
                              bounties |-> f[i].bounties]] :
              f \in [1..k -> MainRowShapes] } : k \in 0..n }

\* The categories list of a row: the track, then the bounties.
MainRowCategories(row) ==
  (IF row.track.isna THEN <<>> ELSE row.track.items)
    \o (IF row.bounties.isna THEN <<>> ELSE row.bounties.items)

\* "team_info = {...}": every row becomes a team.
MainRowTeam(row) == [id |-> row.id, categories |-> MainRowCategories(row)]

\* A run generate_judging_schedule(input_csv_path) on a CSV file with the
\* columns the script reads.
InitMain ==
  /\ rows \in MainRowLists(MaxRows)
  /\ row_pos = 1
  /\ teams = <<>>
  /\ pc = "main_load"
  /\ start_time_str = START_TIME_TEXT
  /\ buffer_minutes = 0
  /\ num_rooms = 6
  /\ first_run = NoRun
  /\ start_time = 0
  /\ team_schedules = <<>>
  /\ cat_start = 0
  /\ InitLocals

\* One iteration of "for _, row in projects_df.iterrows()".
MainLoadRow ==
  /\ pc = "main_load"
  /\ row_pos <= Len(rows)
  /\ teams' = Append(teams, MainRowTeam(rows[row_pos]))
  /\ row_pos' = row_pos + 1
  /\ UNCHANGED <<mlh_current_time, placement,
                 rows, start_time_str, first_run, start_time, buffer_minutes,
                 num_rooms, pc, room_assignments, rooms_todo, schedule,
                 room_end_times, general_end_time, team_schedules,
                 category_schedules, cat_start, current_start_time,
                 current_time, cat_pos, team_pos, last_commit, stats>>

\* The loop over the rows has ended: the categories are normalized and the
\* rooms are defined; the clock texts are parsed next.
MainTeamsLoaded ==
  /\ pc = "main_load"
  /\ row_pos > Len(rows)
  /\ pc' = "main_clock"
  /\ UNCHANGED <<mlh_current_time, placement,
                 rows, row_pos, start_time_str, first_run, teams, start_time,
                 buffer_minutes, num_rooms, room_assignments, rooms_todo,
                 schedule, room_end_times, general_end_time, team_schedules,
                 category_schedules, cat_start, current_start_time,
                 current_time, cat_pos, team_pos, last_commit, stats>>

\* 'start_time = datetime.strptime("x11:05", "%H:%M")' or the line after
\* it raises ValueError, which nothing catches: the run ends.
MainRaiseValueError ==
  /\ pc = "main_clock"
  /\ ~(ClockParses(START_TIME_TEXT) /\ ClockParses(TARGET_END_TEXT))
  /\ pc' = "main_raised"
  /\ UNCHANGED <<mlh_current_time, placement,
                 rows, row_pos, start_time_str, first_run, teams, start_time,
                 buffer_minutes, num_rooms, room_assignments, rooms_todo,
                 schedule, room_end_times, general_end_time, team_schedules,
                 category_schedules, cat_start, current_start_time,
                 current_time, cat_pos, team_pos, last_commit, stats>>

MainNext ==
  \/ MainLoadRow
  \/ MainTeamsLoaded
  \/ MainRaiseValueError

SpecMain == InitMain /\ [][MainNext]_vars


\* --------------------------- main.py: the scheduling of the slots

\* "duration_minutes" of the general rooms, of the MLH track (and the
\* literal 3 of its loop) and of the sponsor tracks; "delay_minutes".
GENERAL_MINUTES == 8

MLH_MINUTES == 3

SPONSOR_MINUTES == 3

PICO_DELAY == 65

\* The keys of the schedule for the six general rooms, in their order.
GENERAL_KEYS ==
  <<"General_2nd floor Idea's clinic", "General_2464", "General_2462",
    "General_2458", "General_2456", "General_2454">>

\* The entries of all_category_names that do not start with "MLH ||".
SPONSOR_CATEGORIES ==
  <<"Best Developer Tool by Warp", "Best Pico-8 Prize Track by Pex Labs",
    "Hackathon Tool Prize Track by Hack Canada">>

\* The keys of the schedule in the order they are inserted, which is the
\* order "for category, slots in schedule.items()" visits them.
TrackOrder == GENERAL_KEYS \o <<"MLH">> \o SPONSOR_CATEGORIES

\* The MLH tests on the labels of the model: the first label passes by
\* its "MLH ||" prefix, the second by the keyword "MongoDB"; no other
\* label of the model holds "MLH", ".Tech", "MongoDB" or "Gen AI".
IsMlhLabel(cat) ==
  cat \in {"MLH || Best Use of Gen AI", "Best Use of MongoDB Atlas"}

\* "category.lower() in cat.lower() or
\*  category.split(" by ")[0].lower() in cat.lower()" on the labels of the
\* model: the category's name or its part before " by " is within the label.
LabelMatches(category, cat) ==
  \/ cat = category
  \/ category = "Best Developer Tool by Warp" /\ cat = "Best Developer Tool"

\* The number of teams the conflict loops are run for in the longest list.
MaxSlotTeams == 9

\* The categories lists of the teams: none, one MLH label, one sponsor
\* label, a label of every track; and those of the teams of a long list.
MainProfiles ==
  { <<>>,
    <<"Best Use of MongoDB Atlas">>,
    <<"Best Developer Tool">>,
    <<"Best Beginner Hack", "MLH || Best Use of Gen AI",
      "Best Developer Tool by Warp", "Best Pico-8 Prize Track by Pex Labs",
      "Hackathon Tool Prize Track by Hack Canada">> }

LongMainProfiles ==
  { <<"Best Beginner Hack">>,
    <<"MLH || Best Use of Gen AI", "Best Developer Tool by Warp">> }

\* The team lists: team_id is the index, so the ids are unique.
MainTeamLists ==
  { [i \in DOMAIN f |-> [id |-> i, categories |-> f[i]]] :
      f \in (UNION { [1..k -> MainProfiles] : k \in 0..MaxMixed })
              \cup [1..MaxSlotTeams -> LongMainProfiles] }

\* np.array_split(teams, n)[i - 1]: the first len(teams) % n parts hold one
\* team more than the others.
ArraySplit(ts, n, i) ==
  LET each == Len(ts) \div n
      extra == Len(ts) % n
      before == (i - 1) * each + (IF i - 1 < extra THEN i - 1 ELSE extra)
      size == each + (IF i <= extra THEN 1 ELSE 0)
  IN  Slice(ts, before, before + size)

\* A slot of a track.
Slot(team, start, minutes) ==
  [team_id |-> team.id, start_time |-> start, end_time |-> start + minutes]

\* The slots of one general room, back to back from current.
RECURSIVE GeneralSlots(_, _)
GeneralSlots(room_teams, current) ==
  IF room_teams = <<>> THEN <<>>
  ELSE <<Slot(Head(room_teams), current, GENERAL_MINUTES)>>
         \o GeneralSlots(Tail(room_teams), current + GENERAL_MINUTES)

\* "is_mlh_team": one of the team's categories passes an MLH test.
IsMainMlhTeam(team) ==
  \E k \in 1..Len(team.categories) : IsMlhLabel(team.categories[k])

\* "mlh_teams", in the order of teams.
MainMlhTeams(ts) == SelectSeq(ts, IsMainMlhTeam)

\* "eligible_teams" of a sponsor category, in the order of teams.
EligibleTeams(ts, category) ==
  SelectSeq(ts, LAMBDA team :
    \E k \in 1..Len(team.categories) :
      LabelMatches(category, team.categories[k]))

\* The start of a sponsor track: the Pico-8 track is delayed.
SponsorStart(category, start) ==
  IF category = "Best Pico-8 Prize Track by Pex Labs"
  THEN start + PICO_DELAY
  ELSE start

\* All slots in the order the two nested loops visit them.
RECURSIVE ScanOrder(_, _)
ScanOrder(sched, order) ==
  IF order = <<>> THEN <<>>
  ELSE sched[Head(order)] \o ScanOrder(sched, Tail(order))

\* Mutant of SlotConflict: the slot's end counts as taken.
SlotConflictClosed(slot, current, minutes) ==
  slot.start_time <= current /\ current <= slot.end_time

\* The three-part test of a slot against the proposed interval.
SlotConflict(slot, current, minutes) ==
  LET proposed_end == current + minutes
  IN  \/ slot.start_time <= current /\ current < slot.end_time
      \/ slot.start_time < proposed_end /\ proposed_end <= slot.end_time
      \/ current <= slot.start_time /\ proposed_end >= slot.end_time

\* One pass of the scan: the index in ScanOrder of the first slot of the
\* team that is in conflict, at which the loops break; 0 when there is none.
FirstConflict(sched, team_id, current, minutes) ==
  LET slots == ScanOrder(sched, TrackOrder)
      hits == {k \in 1..Len(slots) :
                 /\ slots[k].team_id = team_id
                 /\ SlotConflict(slots[k], current, minutes)}
  IN  IF hits = {} THEN 0 ELSE CHOOSE k \in hits : \A j \in hits : k <= j

\* Mutant of PushedTo: the cursor moves a minute past the slot.
PushedPast(slot) == slot.end_time + 1

\* "mlh_current_time = slot_end", "current_time = slot_end"
PushedTo(slot) == slot.end_time

\* Mutant of NextSlotStart: the cursor stays where the slot was placed.
NextSlotStartSame(current, minutes) == current

\* "current_time += timedelta(minutes=...)" after a slot is placed.
NextSlotStart(current, minutes) == current + minutes

\* No slot has been placed by a conflict loop yet.
NoSlotPlaced == [team_id |-> 0, track |-> "", proposed |-> 0, start |-> 0,
                 pushes |-> <<>>]

\* The scheduling code of generate_judging_schedule, entered with the team
\* list and a start time; times are minutes after start_time. The schedule
\* holds an empty track for every key.
InitSlots ==
  /\ teams \in MainTeamLists
  /\ rows = <<>>
  /\ row_pos = 0
  /\ start_time_str = <<>>
  /\ first_run = NoRun
  /\ start_time = 0
  /\ buffer_minutes = 0
  /\ num_rooms = Len(GENERAL_KEYS)
  /\ pc = "slots_general"
  /\ room_assignments = <<>>
  /\ rooms_todo = [i \in 1..Len(GENERAL_KEYS) |-> i]
  /\ schedule = [k \in {TrackOrder[i] : i \in 1..Len(TrackOrder)} |-> <<>>]
  /\ room_end_times = <<>>
  /\ general_end_time = 0
  /\ team_schedules = <<>>
  /\ category_schedules = <<>>
  /\ cat_start = 0
  /\ current_start_time = 0
  /\ current_time = 0
  /\ cat_pos = 0
  /\ team_pos = 0
  /\ last_commit = NoSlotPlaced
  /\ mlh_current_time = 0
  /\ placement = NoPlacement
  /\ stats = NoStats

\* One iteration of "for room_idx, room_teams in enumerate(teams_per_room)".
ScheduleGeneralRoom ==
  /\ pc = "slots_general"
  /\ rooms_todo # <<>>
  /\ LET room_idx == Head(rooms_todo)
         room_teams == ArraySplit(teams, num_rooms, room_idx)
     IN  /\ schedule' = [schedule EXCEPT ![GENERAL_KEYS[room_idx]] =
                           @ \o GeneralSlots(room_teams, start_time)]
         /\ current_time' = start_time + GENERAL_MINUTES * Len(room_teams)
  /\ rooms_todo' = Tail(rooms_todo)
  /\ UNCHANGED <<rows, row_pos, start_time_str, first_run, teams, start_time,
                 buffer_minutes, num_rooms, pc, room_assignments,
                 room_end_times, general_end_time, team_schedules,
                 category_schedules, cat_start, current_start_time, cat_pos,
                 team_pos, last_commit, mlh_current_time, placement, stats>>

\* The MLH teams are found and "mlh_current_time = start_time".
FindMlhTeams ==
  /\ pc = "slots_general"
  /\ rooms_todo = <<>>
  /\ pc' = "slots_mlh"
  /\ mlh_current_time' = start_time
  /\ team_pos' = 1
  /\ placement' = [proposed |-> start_time, pushes |-> <<>>]
  /\ UNCHANGED <<rows, row_pos, start_time_str, first_run, teams, start_time,
                 buffer_minutes, num_rooms, room_assignments, rooms_todo,
                 schedule, room_end_times, general_end_time, team_schedules,
                 category_schedules, cat_start, current_start_time,
                 current_time, cat_pos, last_commit, stats>>

\* An iteration of "while is_conflict" of the MLH loop that finds a
\* conflict: the cursor moves to the end of the slot found.
PushMlhStart ==
  /\ pc = "slots_mlh"
  /\ team_pos <= Len(MainMlhTeams(teams))
  /\ LET team == MainMlhTeams(teams)[team_pos]
         found == FirstConflict(schedule, team.id, mlh_current_time,
                                MLH_MINUTES)
         slot == ScanOrder(schedule, TrackOrder)[found]
     IN  /\ found # 0
         /\ mlh_current_time' = PushedTo(slot)
         /\ placement' = [placement EXCEPT !.pushes = Append(@, slot)]
  /\ UNCHANGED <<rows, row_pos, start_time_str, first_run, teams, start_time,
                 buffer_minutes, num_rooms, pc, room_assignments, rooms_todo,
                 schedule, room_end_times, general_end_time, team_schedules,
                 category_schedules, cat_start, current_start_time,
                 current_time, cat_pos, team_pos, last_commit, stats>>

\* An iteration of the MLH loop that finds no conflict: the loop ends,
\* the slot is appended and the cursor moves past it.
PlaceMlhTeam ==
  /\ pc = "slots_mlh"
  /\ team_pos <= Len(MainMlhTeams(teams))
  /\ LET team == MainMlhTeams(teams)[team_pos]
     IN  /\ FirstConflict(schedule, team.id, mlh_current_time,
                          MLH_MINUTES) = 0
         /\ schedule' = [schedule EXCEPT !["MLH"] =
                           Append(@, Slot(team, mlh_current_time,
                                          MLH_MINUTES))]
         /\ last_commit' = [team_id |-> team.id, track |-> "MLH",
                            proposed |-> placement.proposed,
                            start |-> mlh_current_time,
                            pushes |-> placement.pushes]
  /\ mlh_current_time' = NextSlotStart(mlh_current_time, MLH_MINUTES)
  /\ placement' = [proposed |-> NextSlotStart(mlh_current_time, MLH_MINUTES),
                   pushes |-> <<>>]
  /\ team_pos' = team_pos + 1
  /\ UNCHANGED <<rows, row_pos, start_time_str, first_run, teams, start_time,
                 buffer_minutes, num_rooms, pc, room_assignments, rooms_todo,
                 room_end_times, general_end_time, team_schedules,
                 category_schedules, cat_start, current_start_time,
                 current_time, cat_pos, stats>>

\* The MLH loop has ended: the first sponsor category begins.
FinishMlhTrack ==
  /\ pc = "slots_mlh"
  /\ team_pos > Len(MainMlhTeams(teams))
  /\ pc' = "slots_sponsor"
  /\ cat_pos' = 1
  /\ team_pos' = 1
  /\ current_time' = SponsorStart(SPONSOR_CATEGORIES[1], start_time)
  /\ placement' = [proposed |-> SponsorStart(SPONSOR_CATEGORIES[1], start_time),
                   pushes |-> <<>>]
  /\ UNCHANGED <<rows, row_pos, start_time_str, first_run, teams, start_time,
                 buffer_minutes, num_rooms, room_assignments, rooms_todo,
                 schedule, room_end_times, general_end_time, team_schedules,
                 category_schedules, cat_start, current_start_time,
                 last_commit, mlh_current_time, stats>>

\* An iteration of "while is_conflict" of a sponsor category that finds a
\* conflict.
PushStart ==
  /\ pc = "slots_sponsor"
  /\ team_pos <= Len(EligibleTeams(teams, SPONSOR_CATEGORIES[cat_pos]))
  /\ LET team == EligibleTeams(teams, SPONSOR_CATEGORIES[cat_pos])[team_pos]
         found == FirstConflict(schedule, team.id, current_time,
                                SPONSOR_MINUTES)
         slot == ScanOrder(schedule, TrackOrder)[found]
     IN  /\ found # 0
         /\ current_time' = PushedTo(slot)
         /\ placement' = [placement EXCEPT !.pushes = Append(@, slot)]
  /\ UNCHANGED <<rows, row_pos, start_time_str, first_run, teams, start_time,
                 buffer_minutes, num_rooms, pc, room_assignments, rooms_todo,
                 schedule, room_end_times, general_end_time, team_schedules,
                 category_schedules, cat_start, current_start_time, cat_pos,
                 team_pos, last_commit, mlh_current_time, stats>>

\* An iteration that finds no conflict: the slot is appended to the
\* category's track and the cursor moves past it.
PlaceTeam ==
  /\ pc = "slots_sponsor"
  /\ team_pos <= Len(EligibleTeams(teams, SPONSOR_CATEGORIES[cat_pos]))
  /\ LET category == SPONSOR_CATEGORIES[cat_pos]
         team == EligibleTeams(teams, category)[team_pos]
     IN  /\ FirstConflict(schedule, team.id, current_time,
                          SPONSOR_MINUTES) = 0
         /\ schedule' = [schedule EXCEPT ![category] =
                           Append(@, Slot(team, current_time,
                                          SPONSOR_MINUTES))]
         /\ last_commit' = [team_id |-> team.id, track |-> category,
                            proposed |-> placement.proposed,
                            start |-> current_time,
                            pushes |-> placement.pushes]
  /\ current_time' = NextSlotStart(current_time, SPONSOR_MINUTES)
  /\ placement' = [proposed |-> NextSlotStart(current_time, SPONSOR_MINUTES),
                   pushes |-> <<>>]
  /\ team_pos' = team_pos + 1
  /\ UNCHANGED <<rows, row_pos, start_time_str, first_run, teams, start_time,
                 buffer_minutes, num_rooms, pc, room_assignments, rooms_todo,
                 room_end_times, general_end_time, team_schedules,
                 category_schedules, cat_start, current_start_time, cat_pos,
                 mlh_current_time, stats>>

\* The teams of a sponsor category are placed: the next category begins
\* at its own start.
NextSponsorCategory ==
  /\ pc = "slots_sponsor"
  /\ team_pos > Len(EligibleTeams(teams, SPONSOR_CATEGORIES[cat_pos]))
  /\ cat_pos < Len(SPONSOR_CATEGORIES)
  /\ cat_pos' = cat_pos + 1
  /\ team_pos' = 1
  /\ current_time' = SponsorStart(SPONSOR_CATEGORIES[cat_pos + 1], start_time)
  /\ placement' = [proposed |->
                     SponsorStart(SPONSOR_CATEGORIES[cat_pos + 1], start_time),
                   pushes |-> <<>>]
  /\ UNCHANGED <<rows, row_pos, start_time_str, first_run, teams, start_time,
                 buffer_minutes, num_rooms, pc, room_assignments, rooms_todo,
                 schedule, room_end_times, general_end_time, team_schedules,
                 category_schedules, cat_start, current_start_time,
                 last_commit, mlh_current_time, stats>>

\* The last sponsor category is done: the schedule is complete.
FinishSponsors ==
  /\ pc = "slots_sponsor"
  /\ team_pos > Len(EligibleTeams(teams, SPONSOR_CATEGORIES[cat_pos]))
  /\ cat_pos = Len(SPONSOR_CATEGORIES)
  /\ pc' = "slots_done"
  /\ UNCHANGED <<rows, row_pos, start_time_str, first_run, teams, start_time,
                 buffer_minutes, num_rooms, room_assignments, rooms_todo,
                 schedule, room_end_times, general_end_time, team_schedules,
                 category_schedules, cat_start, current_start_time,
                 current_time, cat_pos, team_pos, last_commit,
                 mlh_current_time, placement, stats>>

SlotsNext ==
  \/ ScheduleGeneralRoom
  \/ FindMlhTeams
  \/ PushMlhStart
  \/ PlaceMlhTeam
  \/ FinishMlhTrack
  \/ PushStart
  \/ PlaceTeam
  \/ NextSponsorCategory
  \/ FinishSponsors

SpecSlots == InitSlots /\ [][SlotsNext]_vars


\* ================================================================ claims

\* The sessions of the room tracks and of the category tracks, each with
\* its track and its position in the track.
RoomSlots ==
  UNION { { [kind |-> "room", room |-> r, cat |-> "", pos |-> i,
             s |-> schedule[r][i]] : i \in 1..Len(schedule[r]) } :
          r \in DOMAIN schedule }

CategorySlots ==
  UNION { { [kind |-> "category", room |-> 0, cat |-> c, pos |-> i,
             s |-> category_schedules[c][i]] :
             i \in 1..Len(category_schedules[c]) } :
          c \in DOMAIN category_schedules }

AllSlots == RoomSlots \cup CategorySlots

\* The later of two sessions starts at least buffer after the earlier ends.
Apart(a, b, buffer) ==
  \/ b.start_time >= a.end_time + buffer
  \/ a.start_time >= b.end_time + buffer

\* C1: in the schedule generate_schedule returns, any two distinct sessions
\* of one team (room tracks and category tracks together) are at least
\* buffer_minutes apart: the later starts no sooner than buffer_minutes
\* after the earlier ends.
C1_TeamSessionsApart ==
  pc = "done" =>
    \A x \in AllSlots : \A y \in AllSlots :
      (x # y /\ x.s.team_id = y.s.team_id)
        => Apart(x.s, y.s, buffer_minutes)

\* C1 witness: a returned schedule, with a buffer longer than the break, in
\* which the conflict scan moved a team's category session to exactly
\* buffer_minutes after the end of its general session.
C1_Witness ==
  /\ pc = "done"
  /\ buffer_minutes > BREAK_MINUTES
  /\ \E x \in RoomSlots : \E y \in CategorySlots :
       /\ x.s.team_id = y.s.team_id
       /\ y.s.start_time = x.s.end_time + buffer_minutes
       /\ y.s.start_time > general_end_time + BREAK_MINUTES


\* C2: generate_general_schedule leaves no team out: the room tracks hold
\* len(teams) sessions in all and every team id is in exactly one of them.
\* (The code contradicts it: when room 6 holds MLH teams its share of the
\* other teams is skipped and never handed to another room.)
C2_EveryTeamInOneRoom ==
  pc \notin {"parse", "general", "rooms"} =>
    /\ Cardinality(RoomSlots) = Len(teams)
    /\ \A i \in 1..Len(teams) :
         Cardinality({x \in RoomSlots : x.s.team_id = teams[i].id}) = 1

\* C3: every room track starts at start_time, every session lasts
\* JUDGING_DURATION minutes, and each next session starts exactly
\* buffer_minutes after the previous one ends.
C3_RoomTracksContiguous ==
  \A r \in DOMAIN schedule :
    LET track == schedule[r]
    IN  /\ track # <<>> => track[1].start_time = start_time
        /\ \A i \in 1..Len(track) :
             track[i].end_time = track[i].start_time + JUDGING_DURATION
        /\ \A i \in 1..(Len(track) - 1) :
             track[i + 1].start_time = track[i].end_time + buffer_minutes

\* C3 witness: buffer 2 and start 10:00, room 1 holds [10:00-10:08] and then
\* [10:10-10:18].
C3_Witness ==
  /\ buffer_minutes = 2
  /\ start_time = 600
  /\ 1 \in DOMAIN schedule
  /\ Len(schedule[1]) >= 2
  /\ schedule[1][1].start_time = 600 /\ schedule[1][1].end_time = 608
  /\ schedule[1][2].start_time = 610 /\ schedule[1][2].end_time = 618

\* C4: in the result of generate_schedule every category track is strictly
\* increasing in start_time, its first session starts no earlier than
\* general_end_time plus the 30-minute break, and no category session
\* starts before a general session has ended.
C4_CategoryTracksOrdered ==
  pc = "done" =>
    \A c \in DOMAIN category_schedules :
      LET track == category_schedules[c]
      IN  /\ \A i \in 1..(Len(track) - 1) :
               track[i].start_time < track[i + 1].start_time
          /\ track # <<>> =>
               track[1].start_time >= stats.general_end_time + 30
          /\ \A i \in 1..Len(track) : \A x \in RoomSlots :
               track[i].start_time >= x.s.end_time

\* C4 witness: a returned schedule with a category track of two sessions or
\* more, after a general phase that scheduled a team.
C4_Witness ==
  /\ pc = "done"
  /\ RoomSlots # {}
  /\ \E c \in DOMAIN category_schedules : Len(category_schedules[c]) >= 2

\* The place of a category in the processing order: MLH, then the sorted
\* ordinary categories.
CatIndex(c) ==
  IF c = "MLH" THEN 0
  ELSE CHOOSE i \in 1..Len(LabelOrder) : LabelOrder[i] = c

\* C5: the categories share one serialized timeline.  No two category
\* sessions overlap; a session of a later-processed category starts at
\* least buffer_minutes after every session of an earlier-processed one
\* ends; and the first team of a category is proposed at start_time when no
\* category was scheduled before, else at the end of the last session of
\* the previous non-empty category plus buffer_minutes.
C5_SerializedTimeline ==
  /\ \A x \in CategorySlots : \A y \in CategorySlots :
       /\ x # y => (x.s.end_time <= y.s.start_time
                    \/ y.s.end_time <= x.s.start_time)
       /\ CatIndex(x.cat) < CatIndex(y.cat)
            => y.s.start_time >= x.s.end_time + buffer_minutes
  /\ (last_commit.team_id # 0
      /\ Len(category_schedules[last_commit.track]) = 1) =>
       LET earlier == {c \in DOMAIN category_schedules :
                         /\ CatIndex(c) < CatIndex(last_commit.track)
                         /\ category_schedules[c] # <<>>}
           prev == CHOOSE c \in earlier :
                     \A d \in earlier : CatIndex(d) <= CatIndex(c)
           track == category_schedules[prev]
       IN  IF earlier = {}
           THEN last_commit.proposed = cat_start
           ELSE last_commit.proposed =
                  track[Len(track)].end_time + buffer_minutes

\* C5 witness: the call has returned with sessions in all three tracks, one
\* of them moved past its proposal by the conflict scan.
C5_Witness ==
  /\ pc = "returned"
  /\ \A c \in {"MLH", "Best Design", "Best Hardware"} :
       c \in DOMAIN category_schedules /\ category_schedules[c] # <<>>
  /\ last_commit.start > last_commit.proposed


\* The teams that carry two or more of the MLH sub-labels.
MultiMlhTeams ==
  {i \in 1..Len(teams) :
     Cardinality(teams[i].categories \cap MLH_CATEGORIES) >= 2}

\* C6: a team with two or more MLH sub-labels has exactly one session in
\* the MLH track, whose categories field is exactly the team's MLH
\* sub-labels, and no MLH sub-label has a track or a session of its own.
C6_OneAggregateSession ==
  pc = "done" =>
    /\ DOMAIN category_schedules \cap MLH_CATEGORIES = {}
    /\ \A x \in CategorySlots : x.s.type \notin MLH_CATEGORIES
    /\ \A i \in MultiMlhTeams :
         LET mine == {x \in CategorySlots :
                        x.cat = "MLH" /\ x.s.team_id = teams[i].id}
         IN  /\ Cardinality(mine) = 1
             /\ \A x \in mine :
                  x.s.categories = teams[i].categories \cap MLH_CATEGORIES

\* C6 witness: a returned schedule for a list with a team that carries two
\* MLH sub-labels next to ordinary labels, and that has its MLH session.
C6_Witness ==
  /\ pc = "done"
  /\ \E i \in MultiMlhTeams :
       /\ teams[i].categories \ MLH_CATEGORIES # {}
       /\ \E x \in CategorySlots : x.cat = "MLH" /\ x.s.team_id = teams[i].id

\* C7: in the schedule generate_schedule returns, a team id is in at most
\* one session of any one room track and of any one category track.
C7_OncePerTrack ==
  pc = "done" =>
    \A x \in AllSlots : \A y \in AllSlots :
      (x.kind = y.kind /\ x.room = y.room /\ x.cat = y.cat
       /\ x.s.team_id = y.s.team_id) => x.pos = y.pos

\* C7 witness: a returned schedule with a room track of two sessions and a
\* team that has sessions in two category tracks.
C7_Witness ==
  /\ pc = "done"
  /\ \E r \in DOMAIN schedule : Len(schedule[r]) >= 2
  /\ \E x \in CategorySlots : \E y \in CategorySlots :
       x.cat # y.cat /\ x.s.team_id = y.s.team_id

\* The session committed last keeps clear of booking b by the buffer (or
\* touches it at exactly the buffer's distance).
ClearOf(start, b, buffer) ==
  \/ start >= b.end_time + buffer
  \/ start + JUDGING_DURATION + buffer <= b.start_time

\* C8: whatever ledger generate_category_schedules is given, the session it
\* commits for a team is clear, by the buffer, of every booking the team's
\* ledger held before.  (The code contradicts it: the bookings are scanned
\* once, against the proposed start only.)
C8_CommitConflictFree ==
  last_commit.team_id # 0 =>
    \A i \in 1..Len(last_commit.before) :
      ClearOf(last_commit.start, last_commit.before[i], buffer_minutes)

\* The bookings of the ledger the allocator's test finds in conflict with a
\* proposal at p.
ConflictingWith(p, bookings, buffer) ==
  {i \in 1..Len(bookings) :
     /\ p <= bookings[i].end_time + buffer
     /\ p + JUDGING_DURATION + buffer >= bookings[i].start_time}

\* C9: a commit is never earlier than its proposal, and when the proposal
\* conflicts with bookings of the team it is at the latest
\* (end + buffer_minutes) among the conflicting bookings.
C9_PushedToLatestConflictEnd ==
  last_commit.team_id # 0 =>
    LET hit == ConflictingWith(last_commit.proposed, last_commit.before,
                               buffer_minutes)
    IN  /\ last_commit.start >= last_commit.proposed
        /\ hit # {} =>
             last_commit.start =
               Max({last_commit.before[i].end_time + buffer_minutes :
                      i \in hit})
        /\ hit = {} => last_commit.start = last_commit.proposed

\* C9 witness: a team booked [10:00-10:08], buffer 2, proposed at 10:05, is
\* committed at 10:10.
C9_Witness ==
  /\ buffer_minutes = 2
  /\ last_commit.team_id # 0
  /\ last_commit.proposed = 605
  /\ Len(last_commit.before) = 1
  /\ last_commit.before[1].start_time = 600
  /\ last_commit.before[1].end_time = 608
  /\ last_commit.start = 610

\* Whether generate_general_schedule has assigned the rooms.
RoomsAssigned ==
  pc \notin {"load", "loaded", "exit", "parse", "general", "raised"}

\* The rooms that hold an MLH team, and the other rooms among 1..num_rooms
\* (the remaining lanes).
AggregateRooms ==
  {r \in DOMAIN room_assignments :
     \E i \in 1..Len(room_assignments[r]) : IsMlhTeam(room_assignments[r][i])}

RemainingLanes == (1..num_rooms) \ AggregateRooms

\* C10: the teams outside the aggregate lane are spread evenly over the
\* remaining lanes: each lane gets total // lanes of them and the first
\* total % lanes lanes one more, so the lane sizes sum to total.
\* (The code contradicts it: the share of a skipped room 6 is lost.)
C10_EvenDistribution ==
  RoomsAssigned =>
    LET total == Len(NonMlhTeams(teams))
        lanes == Cardinality(RemainingLanes)
        rank(r) == Cardinality({q \in RemainingLanes : q < r})
    IN  /\ \A r \in RemainingLanes :
             Len(room_assignments[r]) =
               (total \div lanes) + (IF rank(r) < total % lanes THEN 1 ELSE 0)
        /\ SumSeq([k \in 1..lanes |->
                      Len(room_assignments[
                            CHOOSE r \in RemainingLanes : rank(r) = k - 1])])
             = total

HoldsMlhTeam(room_teams) ==
  \E i \in 1..Len(room_teams) : IsMlhTeam(room_teams[i])

HoldsOtherTeam(room_teams) ==
  \E i \in 1..Len(room_teams) : ~IsMlhTeam(room_teams[i])

TrackIds(track) == {track[i].team_id : i \in 1..Len(track)}

\* C12: for num_rooms >= 1 the general schedule has exactly num_rooms room
\* tracks, keyed 1..num_rooms, with pairwise disjoint sets of team ids, and
\* stats["general_rooms"] has exactly these num_rooms entries.
\* (The code contradicts it: room_assignments[6] is always assigned, and
\* rooms 1..5 as well when room 6 is reserved, so a run with fewer than 6
\* rooms returns tracks of rooms that were not asked for.)
C12_ExactlyNumRoomsTracks ==
  (pc = "done" /\ num_rooms >= 1) =>
    /\ DOMAIN schedule = 1..num_rooms
    /\ \A r, q \in DOMAIN schedule :
          r # q => TrackIds(schedule[r]) \cap TrackIds(schedule[q]) = {}
    /\ DOMAIN stats.general_rooms = 1..num_rooms

\* C13: a call of generate_schedule with num_rooms <= 0 raises an error and
\* returns no schedule: it never gets past the room assignment, no room
\* track and no category track is produced and nothing is returned.
\* (The code contradicts it: nothing validates num_rooms; only num_rooms = 0
\* with fewer than 6 MLH teams fails, by a division by zero, and every
\* other call returns a schedule.)
C13_NonPositiveRoomsRaise ==
  num_rooms <= 0 =>
    /\ pc \in {"parse", "general", "raised"}
    /\ schedule = <<>>
    /\ category_schedules = <<>>
    /\ ~stats.returned

\* Whether the CSV file has a row with a team name.
HasNamedRow == \E i \in 1..Len(rows) : rows[i].named

BadStartStrings == StartStrings \ {GoodStart}

\* C15: a call of generate_schedule whose start_time_str does not parse
\* raises at its first step: it is at the parse or has raised, no room has
\* been assigned, and no session, no ledger entry and no statistics exist.
C15_BadStartRaisesFirst ==
  (pc \notin {"load", "loaded", "exit"}
   /\ start_time_str \in BadStartStrings) =>
    /\ pc \in {"parse", "raised"}
    /\ room_assignments = <<>>
    /\ schedule = <<>>
    /\ team_schedules = <<>>
    /\ category_schedules = <<>>
    /\ ~stats.returned

\* A call with teams, one room and the hour 25 has raised.
C15_Witness ==
  /\ pc = "raised"
  /\ start_time_str \in BadStartStrings
  /\ Len(start_time_str) = Len(GoodStart)
  /\ teams # <<>>
  /\ num_rooms = 1
  /\ schedule = <<>>

OneAppended(shorter, longer) ==
  /\ Len(longer) = Len(shorter) + 1
  /\ SubSeq(longer, 1, Len(shorter)) = shorter

\* A step that commits the team at team_pos to the current category track.
CommitStep ==
  /\ pc \in {"mlh", "cat"}
  /\ team_pos >= 1
  /\ team_pos' = team_pos + 1

\* C17: a commit step appends exactly one session to the current category
\* track and exactly one entry, with that session's times, to the ledger
\* list of the committing team; every other category track, every room
\* track, every earlier session of the current track and every existing
\* ledger entry of any team stays as it was.  And in every step the ledger
\* only grows.
C17_CommitOnlyAppends ==
  /\ [][ CommitStep =>
           LET cat == CurrentCategory
               id == CategoryTeams(teams, cat)[team_pos].id
               before == IF id \in DOMAIN team_schedules
                         THEN team_schedules[id] ELSE <<>>
               session == category_schedules'[cat][Len(category_schedules'[cat])]
               entry == team_schedules'[id][Len(team_schedules'[id])]
           IN  /\ DOMAIN category_schedules' = DOMAIN category_schedules
               /\ OneAppended(category_schedules[cat], category_schedules'[cat])
               /\ session.team_id = id
               /\ \A c \in DOMAIN category_schedules \ {cat} :
                     category_schedules'[c] = category_schedules[c]
               /\ schedule' = schedule
               /\ DOMAIN team_schedules' = DOMAIN team_schedules \cup {id}
               /\ OneAppended(before, team_schedules'[id])
               /\ entry.start_time = session.start_time
               /\ entry.end_time = session.end_time
               /\ \A x \in DOMAIN team_schedules \ {id} :
                     team_schedules'[x] = team_schedules[x] ]_vars
  /\ [][ \A x \in DOMAIN team_schedules :
           /\ x \in DOMAIN team_schedules'
           /\ Len(team_schedules'[x]) >= Len(team_schedules[x])
           /\ SubSeq(team_schedules'[x], 1, Len(team_schedules[x]))
                = team_schedules[x] ]_vars

\* A team with a general booking has just been committed to a category
\* track, pushed past its proposed start, while another team holds a
\* booking too.
C17_Witness ==
  /\ pc \in {"mlh", "cat"}
  /\ last_commit.team_id # 0
  /\ Len(last_commit.before) >= 1
  /\ last_commit.start > last_commit.proposed
  /\ OneAppended(last_commit.before, team_schedules[last_commit.team_id])
  /\ \E x \in DOMAIN team_schedules :
        x # last_commit.team_id /\ Len(team_schedules[x]) >= 1

\* Whether generate_general_schedule has returned.
GeneralReturned == pc \in {"categories", "mlh", "cat", "returned", "done"}

\* The room tracks that hold a session.
BusyRooms == {r \in DOMAIN schedule : schedule[r] # <<>>}

\* C18: the general_end_time returned by the general phase is the latest
\* end time of the last sessions of the non-empty room tracks; a room
\* without teams contributes start_time, so with no team at all it is
\* start_time; and no general session ends after it.
C18_GeneralEndIsLatestEnd ==
  GeneralReturned =>
    /\ general_end_time =
         Max({schedule[r][Len(schedule[r])].end_time : r \in BusyRooms}
             \cup {start_time})
    /\ teams = <<>> => general_end_time = start_time
    /\ \A x \in RoomSlots : x.s.end_time <= general_end_time

\* The general phase has returned with an empty room, a room of one
\* session and a longer room, whose last session ends at general_end_time.
C18_Witness ==
  /\ GeneralReturned
  /\ \E r \in DOMAIN schedule : schedule[r] = <<>>
  /\ \E r \in DOMAIN schedule : Len(schedule[r]) = 1
  /\ \E r \in DOMAIN schedule :
        /\ Len(schedule[r]) >= 2
        /\ schedule[r][Len(schedule[r])].end_time = general_end_time
  /\ general_end_time > SessionEnd(start_time)

\* The teams that have a session in a room track.
TeamsInGeneral == {x.s.team_id : x \in RoomSlots}

\* C19: the returned statistics summarize the schedule: end_time is the
\* latest end over every session of every room and category track and is
\* not before general_end_time, general_rooms[r] is the number of sessions
\* of room track r, and total_teams is the number of teams scheduled in
\* general judging.
\* (The code contradicts the last part: total_teams is len(teams), and the
\* general phase leaves teams out when a room 6 that holds MLH teams is
\* skipped.)
C19_StatsSummarizeSchedule ==
  pc = "done" =>
    /\ stats.end_time =
         Max({x.s.end_time : x \in AllSlots} \cup {stats.general_end_time})
    /\ stats.end_time >= stats.general_end_time
    /\ DOMAIN stats.general_rooms = DOMAIN schedule
    /\ \A r \in DOMAIN schedule : stats.general_rooms[r] = Len(schedule[r])
    /\ stats.total_teams = Cardinality(TeamsInGeneral)

\* Whether generate_category_schedules has created its tracks.
TracksCreated == pc \in {"mlh", "cat", "returned", "done"}

\* Every label a team carries.
LabelsInUse == UNION {teams[i].categories : i \in 1..Len(teams)}

\* C20: the keys of the category tracks are the labels the teams carry
\* without the MLH sub-labels, plus "MLH"; "MLH" is a key even when no team
\* is eligible, and its track is then empty; no MLH sub-label is a key; and
\* stats["categories"] lists exactly these keys, each once.
C20_CategoryKeys ==
  /\ TracksCreated =>
        /\ DOMAIN category_schedules =
             (LabelsInUse \ MLH_CATEGORIES) \cup {"MLH"}
        /\ DOMAIN category_schedules \cap MLH_CATEGORIES = {}
        /\ MlhTeams(teams) = <<>> => category_schedules["MLH"] = <<>>
  /\ pc = "done" =>
        /\ {stats.categories[i] : i \in 1..Len(stats.categories)} =
             DOMAIN category_schedules
        /\ Len(stats.categories) = Cardinality(DOMAIN category_schedules)

\* A schedule has been returned for teams none of which carries an MLH
\* sub-label: the "MLH" track is there and empty, next to a track in use.
C20_Witness ==
  /\ pc = "done"
  /\ teams # <<>>
  /\ MlhTeams(teams) = <<>>
  /\ "MLH" \in DOMAIN category_schedules
  /\ category_schedules["MLH"] = <<>>
  /\ \E c \in DOMAIN category_schedules : category_schedules[c] # <<>>
  /\ stats.categories[1] = "MLH"

\* Whether generate_category_schedules has returned.
CategoriesReturned == pc \in {"returned", "done"}

\* The category sessions of a team id, and those in one track.
SessionsOf(id) == {x \in CategorySlots : x.s.team_id = id}

SessionsIn(id, c) == {x \in SessionsOf(id) : x.cat = c}

\* C21: in the returned category tracks a team has a session in the track
\* of an ordinary label exactly when it carries that label, and a session
\* in the MLH track exactly when it carries an MLH sub-label; so a team
\* with k ordinary labels has k category sessions, and one more when it
\* carries an MLH sub-label; no eligible team is skipped.
C21_EligibilityExact ==
  CategoriesReturned =>
    \A i \in 1..Len(teams) :
      LET team == teams[i]
          ordinary == team.categories \ MLH_CATEGORIES
      IN  /\ \A c \in DOMAIN category_schedules \ {"MLH"} :
                SessionsIn(team.id, c) # {} <=> c \in team.categories
          /\ ordinary \subseteq DOMAIN category_schedules
          /\ SessionsIn(team.id, "MLH") # {} <=> IsMlhTeam(team)
          /\ Cardinality(SessionsOf(team.id)) =
               Cardinality(ordinary) + (IF IsMlhTeam(team) THEN 1 ELSE 0)

\* The tracks have been returned for a team with two MLH sub-labels and two
\* ordinary labels, which has three category sessions, next to a team that
\* has none.
C21_Witness ==
  /\ CategoriesReturned
  /\ \E i \in 1..Len(teams) :
        /\ Cardinality(teams[i].categories \cap MLH_CATEGORIES) = 2
        /\ Cardinality(teams[i].categories \ MLH_CATEGORIES) = 2
        /\ Cardinality(SessionsOf(teams[i].id)) = 3
  /\ \E i \in 1..Len(teams) :
        teams[i].categories = {} /\ SessionsOf(teams[i].id) = {}

\* Whether the allocator is about to test a team against its bookings.
AboutToCommit ==
  \/ pc = "mlh" /\ team_pos <= Len(CategoryTeams(teams, "MLH"))
  \/ /\ pc = "cat"
     /\ cat_pos <= Len(AllCategories(teams))
     /\ team_pos >= 1
     /\ team_pos <= Len(CategoryTeams(teams, CurrentCategory))

\* The bookings the next team is tested against.
BookingsOfNextTeam ==
  LET id == CategoryTeams(teams, CurrentCategory)[team_pos].id
  IN  IF id \in DOMAIN team_schedules
      THEN {team_schedules[id][k] : k \in 1..Len(team_schedules[id])}
      ELSE {}

\* The closed intervals [a1 - pad1, a2 + pad1] and [b1 - pad2, b2 + pad2]
\* have a point in common.
PaddedOverlap(a1, a2, pad1, b1, b2, pad2) ==
  /\ a1 - pad1 <= b2 + pad2
  /\ b1 - pad2 <= a2 + pad1

\* C22 as stated: the allocator's conflict test between the proposed
\* interval and a booking is true exactly when the two intervals, each
\* padded by the buffer on both sides, overlap.
C22_BothPaddedOverlap ==
  AboutToCommit =>
    \A existing \in BookingsOfNextTeam :
      Conflict(current_time, existing, buffer_minutes) <=>
        PaddedOverlap(current_time, SessionEnd(current_time), buffer_minutes,
                      existing.start_time, existing.end_time, buffer_minutes)

\* C22, amended: the allocator's conflict test is true exactly when the
\* proposed interval, padded by the buffer on both sides, and the booking
\* as it stands overlap, that is, when fewer than or exactly buffer minutes
\* lie between the two sessions.
C22_OnePaddedOverlap ==
  AboutToCommit =>
    \A existing \in BookingsOfNextTeam :
      Conflict(current_time, existing, buffer_minutes) <=>
        PaddedOverlap(current_time, SessionEnd(current_time), buffer_minutes,
                      existing.start_time, existing.end_time, 0)

\* A team is about to be tested against a booking that lies more than the
\* buffer and at most twice the buffer before the proposal: no conflict,
\* though the two padded intervals overlap.
C22_Witness ==
  /\ AboutToCommit
  /\ buffer_minutes > 0
  /\ \E existing \in BookingsOfNextTeam :
        /\ ~Conflict(current_time, existing, buffer_minutes)
        /\ current_time - existing.end_time > buffer_minutes
        /\ current_time - existing.end_time <= 2 * buffer_minutes
  /\ \E existing \in BookingsOfNextTeam :
        Conflict(current_time, existing, buffer_minutes)

\* The category sessions in the order they were committed: the MLH track,
\* then the tracks of all_categories in their order.
RECURSIVE ConcatTracks(_)
ConcatTracks(order) ==
  IF order = <<>> THEN <<>>
  ELSE category_schedules[Head(order)] \o ConcatTracks(Tail(order))

Timeline == ConcatTracks(CategoryOrder(teams))

\* C26: in a call of generate_schedule with a buffer below the 30-minute
\* break, every booking of the team under test ends at least the buffer
\* before the cursor, every commit starts at its proposed start, and in the
\* returned tracks the category sessions, taken in commit order, start at
\* general_end_time + 30 and then JUDGING_DURATION + buffer apart.
C26_NoPushBelowBreak ==
  (buffer_minutes >= 0 /\ buffer_minutes < BREAK_MINUTES) =>
    /\ AboutToCommit =>
          \A existing \in BookingsOfNextTeam :
            existing.end_time + buffer_minutes <= current_time
    /\ last_commit.team_id # 0 => last_commit.start = last_commit.proposed
    /\ CategoriesReturned =>
          /\ Timeline # <<>> =>
                Timeline[1].start_time = general_end_time + BREAK_MINUTES
          /\ \A k \in 1..(Len(Timeline) - 1) :
                Timeline[k + 1].start_time =
                  Timeline[k].start_time + JUDGING_DURATION + buffer_minutes

\* A call with buffer 29 has returned; a team had the last session of one
\* track and the first of the next, exactly the buffer apart, and the
\* timeline holds sessions of three tracks.
C26_Witness ==
  /\ pc = "done"
  /\ buffer_minutes = 29
  /\ Len(Timeline) >= 4
  /\ Cardinality({c \in DOMAIN category_schedules :
                    category_schedules[c] # <<>>}) = 3
  /\ \E k \in 1..(Len(Timeline) - 1) :
        /\ Timeline[k].team_id = Timeline[k + 1].team_id
        /\ Timeline[k + 1].start_time = Timeline[k].end_time + buffer_minutes

\* The (start, end, type) triple of a session.
TripleOf(session) ==
  [start_time |-> session.start_time, end_time |-> session.end_time,
   type |-> session.type]

\* The sessions of the room tracks in the order the rooms are laid out.
RECURSIVE ConcatRooms(_)
ConcatRooms(order) ==
  IF order = <<>> THEN <<>>
  ELSE (IF Head(order) \in DOMAIN schedule THEN schedule[Head(order)]
        ELSE <<>>) \o ConcatRooms(Tail(order))

\* The sessions committed so far, in commit order: the room tracks, then
\* the category tracks.
Committed ==
  ConcatRooms(RoomOrder(teams, num_rooms))
    \o (IF TracksCreated THEN Timeline ELSE <<>>)

\* The ledger that holds, for every team id, the triples of its sessions
\* among the given ones, in their order.
RECURSIVE TriplesById(_)
TriplesById(sessions) ==
  IF sessions = <<>> THEN <<>>
  ELSE LET earlier == TriplesById(SubSeq(sessions, 1, Len(sessions) - 1))
           last == sessions[Len(sessions)]
       IN  [id \in DOMAIN earlier \cup {last.team_id} |->
              IF id \notin DOMAIN earlier THEN <<TripleOf(last)>>
              ELSE IF id = last.team_id
                   THEN Append(earlier[id], TripleOf(last))
                   ELSE earlier[id]]

\* C27: at every point of a call of generate_schedule the ledger list of a
\* team id is the list of (start, end, type) triples of the sessions
\* committed so far for that id, in commit order; a team with no session
\* has no ledger entry; and once the general phase has returned, a team of
\* a room track has as its first entry its room-track session, its only
\* entry typed "General".
C27_LedgerMatchesSchedule ==
  LET general == ConcatRooms(RoomOrder(teams, num_rooms))
  IN  /\ team_schedules = TriplesById(Committed)
      /\ DOMAIN team_schedules \subseteq {teams[i].id : i \in 1..Len(teams)}
      /\ Cardinality({general[k].team_id : k \in 1..Len(general)})
           = Len(general)
      /\ GeneralReturned =>
           \A k \in 1..Len(general) :
             LET ledger == team_schedules[general[k].team_id]
             IN  /\ ledger[1] = TripleOf(general[k])
                 /\ ledger[1].type = "General"
                 /\ \A n \in 2..Len(ledger) : ledger[n].type # "General"

\* A call has returned with a team that holds three ledger entries (its
\* room session and two category sessions), a team that holds only its
\* room session, and a room track of two sessions.
C27_Witness ==
  /\ pc = "done"
  /\ \E id \in DOMAIN team_schedules : Len(team_schedules[id]) >= 3
  /\ \E id \in DOMAIN team_schedules :
        /\ Len(team_schedules[id]) = 1
        /\ team_schedules[id][1].type = "General"
  /\ \E r \in DOMAIN schedule : Len(schedule[r]) >= 2

\* C28: a run of main.py's generate_judging_schedule on a well-formed CSV
\* file raises no error between loading the teams and creating the first
\* slot: when the teams are loaded, both clock texts parse under "%H:%M",
\* and the run never ends by the ValueError of strptime.
C28_ClockTextsParse ==
  /\ pc = "main_clock" =>
       ClockParses(START_TIME_TEXT) /\ ClockParses(TARGET_END_TEXT)
  /\ pc # "main_raised"

\* The conflict loop of main.py is at work on a team: the team, the
\* cursor of its track, and the interval proposed for it.
InConflictLoop ==
  \/ pc = "slots_mlh" /\ team_pos <= Len(MainMlhTeams(teams))
  \/ /\ pc = "slots_sponsor"
     /\ team_pos <= Len(EligibleTeams(teams, SPONSOR_CATEGORIES[cat_pos]))

LoopTeam ==
  IF pc = "slots_mlh" THEN MainMlhTeams(teams)[team_pos]
  ELSE EligibleTeams(teams, SPONSOR_CATEGORIES[cat_pos])[team_pos]

LoopTrack == IF pc = "slots_mlh" THEN "MLH" ELSE SPONSOR_CATEGORIES[cat_pos]

Cursor == IF pc = "slots_mlh" THEN mlh_current_time ELSE current_time

\* Two half-open intervals [a1, a2) and [b1, b2) share a minute.
HalfOpenOverlap(a1, a2, b1, b2) == a1 < b2 /\ b1 < a2

\* The slot overlaps the interval of the given length that starts at start.
OverlapsProposal(slot, start, minutes) ==
  HalfOpenOverlap(slot.start_time, slot.end_time, start, start + minutes)

\* The positions, in scan order, of the slots a team holds.
SlotsHeldBy(id) ==
  {k \in 1..Len(ScanOrder(schedule, TrackOrder)) :
     ScanOrder(schedule, TrackOrder)[k].team_id = id}

\* A step of the conflict loop that restarts the scan, and one that ends
\* the loop by placing the slot.
RestartStep ==
  /\ InConflictLoop
  /\ Len(placement'.pushes) = Len(placement.pushes) + 1

PlacingStep == InConflictLoop /\ schedule' # schedule

\* C23: in the conflict loops of main.py a restart moves the candidate
\* start to the end time of the first slot of the team, in scan order,
\* that overlaps the proposed three-minute interval, and places nothing;
\* the loop ends only when no slot of the team in any track overlaps the
\* interval, which becomes the team's slot; the slot starts at or after
\* the start first proposed.
C23_ForwardPush ==
  /\ [][RestartStep =>
          LET slots == ScanOrder(schedule, TrackOrder)
              held == SlotsHeldBy(LoopTeam.id)
              over == {k \in held :
                         OverlapsProposal(slots[k], Cursor, MLH_MINUTES)}
          IN  /\ over # {}
              /\ LET first == CHOOSE k \in over : \A j \in over : k <= j
                 IN  /\ Cursor' = slots[first].end_time
                     /\ placement'.pushes[Len(placement'.pushes)]
                          = slots[first]
              /\ schedule' = schedule
              /\ pc' = pc /\ team_pos' = team_pos /\ cat_pos' = cat_pos]_vars
  /\ [][PlacingStep =>
          LET slots == ScanOrder(schedule, TrackOrder)
              placed == schedule'[LoopTrack][Len(schedule'[LoopTrack])]
          IN  /\ schedule' = [schedule EXCEPT ![LoopTrack] = Append(@, placed)]
              /\ placed.team_id = LoopTeam.id
              /\ placed.start_time = Cursor
              /\ placed.end_time = Cursor + MLH_MINUTES
              /\ \A k \in SlotsHeldBy(LoopTeam.id) :
                   ~OverlapsProposal(slots[k], Cursor, MLH_MINUTES)
              /\ placed.start_time >= placement.proposed]_vars

\* A slot was placed after two restarts, the first caused by the team's
\* general slot and the second by a slot of another track, at the end of
\* the slot that caused the last restart.
C23_Witness ==
  /\ pc \in {"slots_mlh", "slots_sponsor", "slots_done"}
  /\ Len(last_commit.pushes) >= 2
  /\ last_commit.pushes[1].end_time - last_commit.pushes[1].start_time
       = GENERAL_MINUTES
  /\ last_commit.pushes[2].end_time - last_commit.pushes[2].start_time
       = MLH_MINUTES
  /\ last_commit.start = last_commit.pushes[Len(last_commit.pushes)].end_time
  /\ last_commit.start > last_commit.proposed

\* The candidate starts of the loop in progress: the start it was entered
\* with, then the ends of the slots that caused a restart.
Candidates ==
  <<placement.proposed>>
    \o [k \in 1..Len(placement.pushes) |-> placement.pushes[k].end_time]

\* C24: the conflict loop of main.py ends: every restart moves the
\* candidate start strictly forward, to the end of the slot that caused
\* it; a slot that caused a restart overlaps no later candidate interval,
\* so no slot causes two restarts; and the restarts of one placement are
\* at most as many as the slots the team holds.
C24_RestartsBounded ==
  pc \in {"slots_mlh", "slots_sponsor"} =>
    /\ \A k \in 1..Len(placement.pushes) : Candidates[k] < Candidates[k + 1]
    /\ Cursor = Candidates[Len(Candidates)]
    /\ \A k \in 1..Len(placement.pushes) :
         ~OverlapsProposal(placement.pushes[k], Cursor, MLH_MINUTES)
    /\ \A k, j \in 1..Len(placement.pushes) :
         k # j => placement.pushes[k] # placement.pushes[j]
    /\ InConflictLoop =>
         /\ Len(placement.pushes) <= Cardinality(SlotsHeldBy(LoopTeam.id))
         /\ \A k \in 1..Len(placement.pushes) :
              placement.pushes[k].team_id = LoopTeam.id

\* A loop has restarted three times, once for each of three slots the
\* team holds.
C24_Witness ==
  /\ pc = "slots_sponsor"
  /\ InConflictLoop
  /\ Len(placement.pushes) = 3
  /\ Cardinality(SlotsHeldBy(LoopTeam.id)) >= 3
  /\ Cursor > placement.proposed

\* The positions [track, index] of the slots of the schedule of main.py.
SlotPositions ==
  {p \in {TrackOrder[i] : i \in 1..Len(TrackOrder)} \X (1..MaxSlotTeams + 1) :
     p[2] <= Len(schedule[p[1]])}

\* C25: in the schedule main.py builds no two slots of one team share a
\* minute, and in every track each slot starts at or after the end of the
\* slot before it.
C25_NoTeamOverlap ==
  pc \in {"slots_general", "slots_mlh", "slots_sponsor", "slots_done"} =>
    /\ \A p, q \in SlotPositions :
         (p # q /\ schedule[p[1]][p[2]].team_id = schedule[q[1]][q[2]].team_id)
           => ~HalfOpenOverlap(schedule[p[1]][p[2]].start_time,
                               schedule[p[1]][p[2]].end_time,
                               schedule[q[1]][q[2]].start_time,
                               schedule[q[1]][q[2]].end_time)
    /\ \A i \in 1..Len(TrackOrder) :
         \A k \in 1..(Len(schedule[TrackOrder[i]]) - 1) :
           /\ schedule[TrackOrder[i]][k].end_time
                <= schedule[TrackOrder[i]][k + 1].start_time
           /\ schedule[TrackOrder[i]][k].start_time
                <= schedule[TrackOrder[i]][k + 1].start_time

\* The schedule is complete: a general room holds two slots, the MLH
\* track has a gap left by a push, and a team holds a slot in a general
\* room, in the MLH track and in a sponsor track.
C25_Witness ==
  /\ pc = "slots_done"
  /\ \E i \in 1..Len(GENERAL_KEYS) : Len(schedule[GENERAL_KEYS[i]]) >= 2
  /\ \E k \in 1..(Len(schedule["MLH"]) - 1) :
       schedule["MLH"][k].end_time < schedule["MLH"][k + 1].start_time
  /\ \E id \in 1..Len(teams) : Cardinality(SlotsHeldBy(id)) = 3

=============================================================================
